---- MODULE Spec2Model ----
(***************************************************************************)
(* DeepLinks generate_guide.py: one batch run of the M3U / XMLTV generator *)
(* (main -> load_events_for_window -> sort -> summarize_run ->             *)
(* generate_m3u -> generate_xmltv), and the pure helper shorten_title.     *)
(*                                                                         *)
(* Instants are milliseconds since 2024-01-01T00:00:00Z.  The clock        *)
(* (now_utc) has sub-second resolution; timestamps of store rows are       *)
(* strings, modelled by their format and the instant they denote.          *)
(***************************************************************************)
EXTENDS Integers, Sequences, FiniteSets, TLC

VARIABLES
    pc,        \* position of main: "start", "failed", "loaded", "m3u", "done"
    clock,     \* the last value now_utc() returned
    tile,      \* STANDBY_TILE_MIN of this run (environment)
    store,     \* the events table: a sequence of rows
    rows,      \* load_events_for_window: the rows list built from the query
    events,    \* main: the de-duplicated, sorted event list
    nowLoad,   \* the 'now' read by load_events_for_window
    nowM3u,    \* the 'now' read by generate_m3u
    nowXml,    \* the 'now' read by generate_xmltv
    m3u,       \* the playlist file
    xmltv,     \* the guide file
    tpc,       \* position of the shorten_title driver
    title,     \* shorten_title: the input s
    max_len,   \* shorten_title: the input max_len
    once,      \* shorten_title(s, max_len)
    twice      \* shorten_title(shorten_title(s, max_len), max_len)

runVars == <<pc, clock, tile, store, rows, events, nowLoad, nowM3u, nowXml, m3u, xmltv>>
titleVars == <<tpc, title, max_len, once, twice>>
vars == <<pc, clock, tile, store, rows, events, nowLoad, nowM3u, nowXml, m3u, xmltv,
          tpc, title, max_len, once, twice>>

---------------------------------------------------------------------------
(* Bounds and program constants *)

MaxRows == 2                 \* rows in the store
MaxTokens == 3               \* tokens a title is built from

MsPerSec == 1000
PLANNING_WINDOW_HOURS == 3
POST_END_GRACE_MIN == 65
FILLER_HOURS == 8
SLIVER_MIN == 5

MsPerMin == 60 * MsPerSec
MsPerHour == 60 * MsPerMin

\* the instant hh:mm:ss of 2024-01-01
At(h, m, s) == h * MsPerHour + m * MsPerMin + s * MsPerSec

Min(a, b) == IF a <= b THEN a ELSE b
Max(a, b) == IF a >= b THEN a ELSE b

\* tile sizes a run may be configured with (default 30)
TileSizes == {28, 30, 45}

---------------------------------------------------------------------------
(* Time helpers *)

\* strftime without %f: the fraction of a second is dropped
jd_fmt(dt) == dt - (dt % MsPerSec)

to_xmltv_dt(dt) == dt - (dt % MsPerSec)

\* int(round(seconds / 60.0)): Python rounds halves to the even integer
minutes_between(a, b) ==
    LET d == b - a
        q == d \div MsPerMin
        r == d % MsPerMin
    IN  IF 2 * r < MsPerMin THEN q
        ELSE IF 2 * r > MsPerMin THEN q + 1
        ELSE IF q % 2 = 0 THEN q ELSE q + 1

---------------------------------------------------------------------------
(* Store rows and their timestamp strings *)

\* "Z":   YYYY-MM-DDTHH:MM:SSZ            (SQLite and Python both read it)
\* "jd":  a Julian day number, "2460311.0" (SQLite reads it, fromisoformat raises)
\* "bad": no date at all, "TBD"            (julianday() is NULL, fromisoformat raises)
Stamp(f, t) == [fmt |-> f, t |-> t]
Z(h, m, s) == Stamp("Z", At(h, m, s))

Row(id, ttl, start_utc, stop_utc) ==
    [id |-> id, title |-> ttl, start_utc |-> start_utc, stop_utc |-> stop_utc]

IsIsoZ(ts) == ts.fmt = "Z"

\* julianday(replace(x,'Z','+00:00')): NULL for a string SQLite cannot read
JulianIsNull(ts) == ts.fmt = "bad"
julianday(ts) == ts.t

\* datetime.fromisoformat raises ValueError on anything but an ISO string
ParseRaises(ts) == ts.fmt # "Z"
parse_iso_z(ts) == ts.t

Event(r) == [id |-> r.id, title |-> r.title,
             start |-> parse_iso_z(r.start_utc), stop |-> parse_iso_z(r.stop_utc)]

---------------------------------------------------------------------------
(* load_events_for_window *)

\* the WHERE clause: both sides go through julianday(); the parameters are
\* the strings jd_fmt() wrote; a NULL julianday() makes the comparison NULL
InWindow(r, now) ==
    LET window_end == now + PLANNING_WINDOW_HOURS * MsPerHour
        grace_cutoff == now - POST_END_GRACE_MIN * MsPerMin
    IN  /\ ~JulianIsNull(r.start_utc)
        /\ ~JulianIsNull(r.stop_utc)
        /\ julianday(r.start_utc) <= jd_fmt(window_end)
        /\ julianday(r.stop_utc) >= jd_fmt(grace_cutoff)

\* ORDER BY start_utc, title, id: start_utc is compared as a string
\* ("2024-..Z" strings order by instant and sort before "2460311.0")
StrRank(ts) == IF ts.fmt = "Z" THEN 0 ELSE 1
TitleLess(a, b) == a = "A" /\ b = "B"
RowLess(a, b) ==
    \/ StrRank(a.start_utc) < StrRank(b.start_utc)
    \/ /\ StrRank(a.start_utc) = StrRank(b.start_utc)
       /\ \/ a.start_utc.t < b.start_utc.t
          \/ /\ a.start_utc.t = b.start_utc.t
             /\ \/ TitleLess(a.title, b.title)
                \/ a.title = b.title /\ a.id < b.id

RECURSIVE InsertRow(_, _)
InsertRow(x, s) ==
    IF s = <<>> THEN <<x>>
    ELSE IF RowLess(x, Head(s)) THEN <<x>> \o s
    ELSE <<Head(s)>> \o InsertRow(x, Tail(s))

RECURSIVE OrderBy(_)
OrderBy(s) ==
    IF s = <<>> THEN <<>>
    ELSE InsertRow(s[Len(s)], OrderBy(SubSeq(s, 1, Len(s) - 1)))

\* cx.execute(q, params): the rows the query yields, in query order
Query(tbl, now) ==
    LET Test(r) == InWindow(r, now)
    IN  OrderBy(SelectSeq(tbl, Test))

RowRaises(r) == ParseRaises(r.start_utc) \/ ParseRaises(r.stop_utc)

\* the rows parsed before the loop ends, or before parse_iso_z raises
RECURSIVE ParsedPrefix(_)
ParsedPrefix(q) ==
    IF q = <<>> \/ RowRaises(Head(q)) THEN <<>>
    ELSE <<Event(Head(q))>> \o ParsedPrefix(Tail(q))

\* mutant: the first row of an id wins
LastWithId_First(rs, id) ==
    rs[CHOOSE i \in DOMAIN rs :
          /\ rs[i].id = id
          /\ \A j \in DOMAIN rs : j < i => rs[j].id # id]

\* list({e.id: e for e in rows}.values()): a key keeps the place of its
\* first row and the value of its last
LastWithId(rs, id) ==
    rs[CHOOSE i \in DOMAIN rs :
          /\ rs[i].id = id
          /\ \A j \in DOMAIN rs : j > i => rs[j].id # id]

RECURSIVE DedupFrom(_, _)
DedupFrom(rs, i) ==
    IF i > Len(rs) THEN <<>>
    ELSE (IF \E j \in 1..(i - 1) : rs[j].id = rs[i].id
          THEN <<>>
          ELSE <<LastWithId(rs, rs[i].id)>>) \o DedupFrom(rs, i + 1)

Dedup(rs) == DedupFrom(rs, 1)

\* main: events.sort(key=lambda e: (e.start, e.title, e.id))
EventLess(a, b) ==
    \/ a.start < b.start
    \/ /\ a.start = b.start
       /\ \/ TitleLess(a.title, b.title)
          \/ a.title = b.title /\ a.id < b.id

RECURSIVE InsertEvent(_, _)
InsertEvent(x, s) ==
    IF s = <<>> THEN <<x>>
    ELSE IF EventLess(x, Head(s)) THEN <<x>> \o s
    ELSE <<Head(s)>> \o InsertEvent(x, Tail(s))

RECURSIVE SortEvents(_)
SortEvents(s) ==
    IF s = <<>> THEN <<>>
    ELSE InsertEvent(s[Len(s)], SortEvents(SubSeq(s, 1, Len(s) - 1)))

---------------------------------------------------------------------------
(* generate_m3u *)

chan_id(id) == <<"dl", id>>

\* mutant: an event stopping exactly now is hidden too
Ended_Inclusive(ev, now) == ev.stop <= now

\* if ev.stop < now: continue
Ended(ev, now) == ev.stop < now

RECURSIVE M3uEntries(_, _)
M3uEntries(evs, now) ==
    IF evs = <<>> THEN <<>>
    ELSE (IF Ended(Head(evs), now) THEN <<>>
          ELSE <<[tvg_id |-> chan_id(Head(evs).id), playID |-> Head(evs).id]>>)
         \o M3uEntries(Tail(evs), now)

---------------------------------------------------------------------------
(* generate_xmltv *)

emit_programme(chan, start, stop, kind, ttl, live) ==
    [channel |-> chan, start |-> to_xmltv_dt(start), stop |-> to_xmltv_dt(stop),
     kind |-> kind, title |-> ttl, live |-> live]

\* mutant: the cursor is not aligned
AlignCursor_None(cursor, T) == cursor

\* cursor.replace(minute=(cursor.minute // T) * T, second=0, microsecond=0)
AlignCursor(cursor, T) ==
    LET minute == (cursor \div MsPerMin) % 60
        hour0 == cursor - (cursor % MsPerHour)
    IN  hour0 + ((minute \div T) * T) * MsPerMin

\* mutant: the last tile is not clipped
BlockEnd_NoClip(cursor, limit, T) == cursor + T * MsPerMin

\* block_end = min(cursor + tile, limit)
BlockEnd(cursor, limit, T) == Min(cursor + T * MsPerMin, limit)

\* mutant: only empty tiles are skipped
NotSliver_NonEmpty(cursor, block_end) == minutes_between(cursor, block_end) >= 1

\* if minutes_between(cursor, block_end) >= 5
NotSliver(cursor, block_end) == minutes_between(cursor, block_end) >= SLIVER_MIN

FillerTitle(kind) == IF kind = "pre" THEN "NOT YET STARTED" ELSE "STREAM OFFLINE"

\* while cursor < limit: ...; cursor += tile
RECURSIVE Tiles(_, _, _, _, _)
Tiles(chan, cursor, limit, T, kind) ==
    IF cursor >= limit THEN <<>>
    ELSE (IF NotSliver(cursor, BlockEnd(cursor, limit, T))
          THEN <<emit_programme(chan, cursor, BlockEnd(cursor, limit, T), kind, FillerTitle(kind), FALSE)>>
          ELSE <<>>)
         \o Tiles(chan, cursor + T * MsPerMin, limit, T, kind)

PreStart(ev, T) == AlignCursor(ev.start - FILLER_HOURS * MsPerHour, T)
PreTiles(ev, T) == Tiles(chan_id(ev.id), PreStart(ev, T), ev.start, T, "pre")

\* mutant: the live marker forgets the stop
IsLive_NoStop(ev, now) == ev.start <= now

\* if ev.start <= now <= ev.stop: <live/>
IsLive(ev, now) == ev.start <= now /\ now <= ev.stop

EventBlock(ev, now) ==
    emit_programme(chan_id(ev.id), ev.start, ev.stop, "event", ev.title, IsLive(ev, now))

\* mutant: the post-event cursor is aligned like the pre-event one
PostStart_Aligned(ev, T) == AlignCursor(ev.stop, T)

\* cursor = ev.stop
PostStart(ev, T) == ev.stop
PostTiles(ev, T) ==
    Tiles(chan_id(ev.id), PostStart(ev, T), ev.stop + FILLER_HOURS * MsPerHour, T, "post")

ProgrammesOf(ev, now, T) == PreTiles(ev, T) \o <<EventBlock(ev, now)>> \o PostTiles(ev, T)

RECURSIVE Programmes(_, _, _)
Programmes(evs, now, T) ==
    IF evs = <<>> THEN <<>>
    ELSE ProgrammesOf(Head(evs), now, T) \o Programmes(Tail(evs), now, T)

Channels(evs) == [i \in DOMAIN evs |-> chan_id(evs[i].id)]

---------------------------------------------------------------------------
(* The run: main *)

NoM3u == [written |-> FALSE, entries |-> <<>>]
NoXmltv == [written |-> FALSE, channels |-> <<>>, programmes |-> <<>>]

\* (title, start_utc, stop_utc) of the rows a store may hold; now is near 12:00
Shapes ==
    { <<"A", Z(14, 0, 0), Z(16, 0, 0)>>,      \* starts within the window
      <<"B", Z(10, 0, 0), Z(11, 0, 0)>>,      \* ended 60 minutes ago
      <<"A", Z(9, 0, 0), Z(10, 40, 0)>>,      \* ended 80 minutes ago
      <<"B", Z(9, 0, 0), Z(10, 55, 0)>>,      \* ended 65 minutes ago
      <<"A", Z(15, 0, 0), Z(17, 0, 0)>>,      \* starts when the window ends
      <<"B", Z(15, 0, 1), Z(17, 0, 0)>>,      \* starts a second later
      <<"A", Z(11, 30, 0), Z(12, 0, 1)>>,     \* live, about to end
      <<"B", Z(12, 4, 40), Z(12, 6, 40)>>,    \* two minutes long, off the minute
      <<"A", Z(12, 33, 0), Z(12, 33, 0)>>,    \* stop = start
      <<"B", Z(13, 0, 0), Z(12, 30, 0)>>,     \* stop < start
      <<"A", Stamp("bad", 0), Z(16, 0, 0)>>,  \* start_utc is no date
      <<"B", Z(14, 0, 0), Stamp("jd", At(16, 0, 0))>>,   \* stop_utc a Julian day
      <<"A", Stamp("jd", At(18, 0, 0)), Z(19, 0, 0)>> }  \* the same, out of window

RowDomain ==
    {Row(1, sh[1], sh[2], sh[3]) : sh \in Shapes}
    \cup {Row(2, "B", Z(10, 0, 0), Z(11, 0, 0)),
          Row(2, "A", Z(14, 0, 0), Z(16, 0, 0)),
          Row(2, "B", Z(12, 4, 40), Z(12, 6, 40))}

Stores == UNION {[1..n -> RowDomain] : n \in 0..MaxRows}

\* what now_utc() may return the first time, and how far it may have moved on
FirstNows == {At(12, 0, 0), At(12, 0, 0) + 500}
Delays == {0, 1000}

TitleIdle ==
    /\ tpc = "idle" /\ title = <<>> /\ max_len = 0 /\ once = <<>> /\ twice = <<>>

Init ==
    /\ pc = "start"
    /\ clock = 0
    /\ tile \in TileSizes
    /\ store \in Stores
    /\ rows = <<>>
    /\ events = <<>>
    /\ nowLoad = 0 /\ nowM3u = 0 /\ nowXml = 0
    /\ m3u = NoM3u
    /\ xmltv = NoXmltv
    /\ TitleIdle

\* main: load_events_for_window returns; events.sort(...)
LoadEvents ==
    /\ pc = "start"
    /\ \E now \in FirstNows :
         LET q == Query(store, now)
         IN  /\ \A i \in DOMAIN q : ~RowRaises(q[i])
             /\ nowLoad' = now
             /\ clock' = now
             /\ rows' = ParsedPrefix(q)
             /\ events' = SortEvents(Dedup(ParsedPrefix(q)))
    /\ pc' = "loaded"
    /\ UNCHANGED <<tile, store, nowM3u, nowXml, m3u, xmltv>>
    /\ UNCHANGED titleVars

\* main: parse_iso_z raises inside load_events_for_window; the run ends
LoadRaises ==
    /\ pc = "start"
    /\ \E now \in FirstNows :
         LET q == Query(store, now)
         IN  /\ \E i \in DOMAIN q : RowRaises(q[i])
             /\ nowLoad' = now
             /\ clock' = now
             /\ rows' = ParsedPrefix(q)
    /\ pc' = "failed"
    /\ UNCHANGED <<tile, store, events, nowM3u, nowXml, m3u, xmltv>>
    /\ UNCHANGED titleVars

\* summarize_run: generate_m3u(events, OUT_M3U)
GenerateM3u ==
    /\ pc = "loaded"
    /\ \E d \in Delays :
         /\ nowM3u' = clock + d
         /\ clock' = clock + d
         /\ m3u' = [written |-> TRUE, entries |-> M3uEntries(events, clock + d)]
    /\ pc' = "m3u"
    /\ UNCHANGED <<tile, store, rows, events, nowLoad, nowXml, xmltv>>
    /\ UNCHANGED titleVars

\* summarize_run: generate_xmltv(events, OUT_XML)
GenerateXmltv ==
    /\ pc = "m3u"
    /\ \E d \in Delays :
         /\ nowXml' = clock + d
         /\ clock' = clock + d
         /\ xmltv' = [written |-> TRUE,
                      channels |-> Channels(events),
                      programmes |-> Programmes(events, clock + d, tile)]
    /\ pc' = "done"
    /\ UNCHANGED <<tile, store, rows, events, nowLoad, nowM3u, m3u>>
    /\ UNCHANGED titleVars

Next == LoadEvents \/ LoadRaises \/ GenerateM3u \/ GenerateXmltv

Spec == Init /\ [][Next]_vars

---------------------------------------------------------------------------
(* What the claims speak about *)

\* the programme blocks of one channel, in emission order
BlocksOn(c) ==
    LET Test(p) == p.channel = c
    IN  SelectSeq(xmltv.programmes, Test)

KindOn(c, kind) ==
    LET Test(p) == p.channel = c /\ p.kind = kind
    IN  SelectSeq(xmltv.programmes, Test)

InPlaylist(id) == \E k \in DOMAIN m3u.entries : m3u.entries[k].tvg_id = chan_id(id)

Ordered(bs) ==
    \A k \in 1..(Len(bs) - 1) :
        bs[k].start < bs[k + 1].start /\ bs[k].stop <= bs[k + 1].start

TileMs == tile * MsPerMin

\* minute a multiple of the tile size, second 0
OnGrid(t) == t % MsPerMin = 0 /\ ((t \div MsPerMin) % 60) % tile = 0

\* C1 as stated: on every event's channel the blocks, in emission order,
\* have strictly increasing starts and each stops no later than the next starts.
C1_AnyEvent ==
    xmltv.written =>
        \A i \in DOMAIN events : Ordered(BlocksOn(chan_id(events[i].id)))

\* C1 (amended): the same, for every event that stops after it starts.
C1_Ordered ==
    xmltv.written =>
        \A i \in DOMAIN events :
            events[i].start < events[i].stop => Ordered(BlocksOn(chan_id(events[i].id)))

C1_Witness ==
    /\ xmltv.written
    /\ \E i \in DOMAIN events :
         /\ events[i].start < events[i].stop
         /\ events[i].start % TileMs # 0
         /\ Len(KindOn(chan_id(events[i].id), "pre")) > 1
         /\ Len(KindOn(chan_id(events[i].id), "event")) = 1
         /\ Len(KindOn(chan_id(events[i].id), "post")) > 1

\* C2 as stated: no emitted block of any kind is shorter than 5 minutes.
C2_AnyBlock ==
    xmltv.written =>
        \A k \in DOMAIN xmltv.programmes :
            xmltv.programmes[k].stop - xmltv.programmes[k].start >= SLIVER_MIN * MsPerMin

\* C2 (amended): every emitted filler tile lasts a number of minutes that
\* rounds to 5 or more, so more than 4.5 minutes (and stop > start); the event
\* block is emitted with the event's own duration, whatever it is.
C2_Fillers ==
    xmltv.written =>
        /\ \A k \in DOMAIN xmltv.programmes :
             LET p == xmltv.programmes[k]
             IN  p.kind # "event" =>
                   /\ 2 * (p.stop - p.start) > (2 * SLIVER_MIN - 1) * MsPerMin
                   /\ p.stop > p.start
        /\ \A i \in DOMAIN events :
             \E k \in DOMAIN xmltv.programmes :
                 LET p == xmltv.programmes[k]
                 IN  /\ p.kind = "event" /\ p.channel = chan_id(events[i].id)
                     /\ p.stop - p.start = events[i].stop - events[i].start

C2_Witness ==
    /\ xmltv.written
    /\ \E k \in DOMAIN xmltv.programmes :
         LET p == xmltv.programmes[k]
         IN  p.kind = "pre" /\ p.stop - p.start < SLIVER_MIN * MsPerMin
    /\ \E k \in DOMAIN xmltv.programmes :
         LET p == xmltv.programmes[k]
         IN  p.kind = "event" /\ p.stop - p.start < SLIVER_MIN * MsPerMin

\* C3: an event of the list is in the playlist exactly when it has not ended at
\* the 'now' generate_m3u read; in the playlist or not, the guide has its
\* channel, its event block and its post-event filler, which starts at its stop.
C3_PlaylistVsGuide ==
    xmltv.written =>
        \A i \in DOMAIN events :
            LET ev == events[i]
                c == chan_id(ev.id)
            IN  /\ InPlaylist(ev.id) <=> ev.stop >= nowM3u
                /\ \E k \in DOMAIN xmltv.channels : xmltv.channels[k] = c
                /\ Len(KindOn(c, "event")) > 0
                /\ Len(KindOn(c, "post")) > 0
                /\ KindOn(c, "post")[1].start = ev.stop
                /\ KindOn(c, "post")[1].title = "STREAM OFFLINE"

C3_Witness ==
    /\ xmltv.written
    /\ \E i \in DOMAIN events :
         /\ events[i].stop < nowM3u
         /\ ~InPlaylist(events[i].id)
         /\ Len(KindOn(chan_id(events[i].id), "post")) > 0
    /\ \E i \in DOMAIN events : InPlaylist(events[i].id)

\* C4 as stated: a row is returned exactly when start <= now + window and
\* stop >= now - grace, as instants.
Returned(r) == \E j \in DOMAIN rows : rows[j] = Event(r)

C4_Overlap ==
    pc = "loaded" =>
        \A i \in DOMAIN store :
            LET r == store[i]
            IN  IsIsoZ(r.start_utc) /\ IsIsoZ(r.stop_utc) =>
                  (Returned(r) <=>
                     /\ r.start_utc.t <= nowLoad + PLANNING_WINDOW_HOURS * MsPerHour
                     /\ r.stop_utc.t >= nowLoad - POST_END_GRACE_MIN * MsPerMin)

\* C5: one Event per distinct id among the rows read, equal to the last row of
\* that id in query order; one channel per id; one event block on it, spanning
\* the Event's [start, stop].
IdsOf(sq) == {sq[j].id : j \in DOMAIN sq}

C5_OnePerId ==
    xmltv.written =>
        /\ IdsOf(events) = IdsOf(rows)
        /\ Len(events) = Cardinality(IdsOf(rows))
        /\ \A i \in DOMAIN events :
             \E j \in DOMAIN rows :
                 /\ rows[j] = events[i]
                 /\ \A k \in DOMAIN rows : k > j => rows[k].id # events[i].id
        /\ Len(xmltv.channels) = Cardinality(IdsOf(rows))
        /\ \A i \in DOMAIN events :
             LET c == chan_id(events[i].id)
             IN  /\ \E k \in DOMAIN xmltv.channels : xmltv.channels[k] = c
                 /\ Len(KindOn(c, "event")) = 1
                 /\ KindOn(c, "event")[1].start = events[i].start
                 /\ KindOn(c, "event")[1].stop = events[i].stop

C5_Witness ==
    /\ xmltv.written
    /\ \E j \in DOMAIN rows, k \in DOMAIN rows :
         j < k /\ rows[j].id = rows[k].id /\ rows[j] # rows[k]

\* C6 as stated: with a row whose start_utc or stop_utc is not ISO-8601 with a
\* 'Z', the run fails: it never gets past loading and writes no file.
HasMalformedRow ==
    \E i \in DOMAIN store : ~IsIsoZ(store[i].start_utc) \/ ~IsIsoZ(store[i].stop_utc)

C6_FailsWhole ==
    HasMalformedRow =>
        /\ pc \in {"start", "failed"}
        /\ ~m3u.written
        /\ ~xmltv.written

PreOf(ev) == KindOn(chan_id(ev.id), "pre")
PostOf(ev) == KindOn(chan_id(ev.id), "post")

\* the pre-event tiling of one event; gridAll: every tile start is on the grid
PreTiling(ev, gridAll) ==
    LET pre == PreOf(ev)
        n == Len(pre)
        lookback == ev.start - FILLER_HOURS * MsPerHour
    IN  /\ n > 0
        /\ OnGrid(pre[1].start)
        /\ pre[1].start <= lookback
        /\ lookback - pre[1].start < TileMs
        /\ gridAll => \A k \in 1..n : OnGrid(pre[k].start)
        /\ \A k \in 1..(n - 1) :
             pre[k].stop = pre[k + 1].start /\ pre[k].stop - pre[k].start = TileMs
        /\ \/ pre[n].stop = ev.start
           \/ /\ pre[n].stop < ev.start
              /\ ev.start - pre[n].stop < SLIVER_MIN * MsPerMin
              /\ pre[n].stop - pre[n].start = TileMs

\* C8 as stated: every NOT YET STARTED tile starts on a tile-size boundary of
\* the clock; the first at the boundary at or before start - 8h; the tiles are
\* contiguous, one tile size long but the last, which stops at the event start
\* unless a final sliver shorter than 5 minutes was suppressed.
C8_EveryTileOnGrid ==
    xmltv.written => \A i \in DOMAIN events : PreTiling(events[i], TRUE)

\* C8 (amended): the same, with "every tile starts on a boundary of the clock"
\* kept for the tile sizes that divide 60; for any tile size the first tile
\* starts on the boundary and each later one a tile size after the one before.
C8_Tiling ==
    xmltv.written => \A i \in DOMAIN events : PreTiling(events[i], 60 % tile = 0)

C8_Witness ==
    /\ xmltv.written
    /\ 60 % tile = 0
    /\ \E i \in DOMAIN events :
         PreOf(events[i])[Len(PreOf(events[i]))].stop < events[i].start
    /\ \E i \in DOMAIN events :
         LET last == PreOf(events[i])[Len(PreOf(events[i]))]
         IN  last.stop = events[i].start /\ last.stop - last.start < TileMs

\* C9 as stated: the first STREAM OFFLINE tile starts at the event stop, every
\* later one on a tile-size boundary of the clock, and the tiles run to
\* stop + 8h, where the last one is clipped.
C9_OnClockGrid ==
    xmltv.written =>
        \A i \in DOMAIN events :
            LET post == PostOf(events[i])
                n == Len(post)
            IN  /\ n > 0
                /\ post[1].start = events[i].stop
                /\ \A k \in 2..n : OnGrid(post[k].start)
                /\ \A k \in 1..(n - 1) : post[k].stop = post[k + 1].start
                /\ \/ post[n].stop = events[i].stop + FILLER_HOURS * MsPerHour
                   \/ events[i].stop + FILLER_HOURS * MsPerHour - post[n].stop
                          < SLIVER_MIN * MsPerMin

\* C9 (amended): the STREAM OFFLINE tiles start at the event stop and at whole
\* tile sizes after it (offsets from the stop, not clock boundaries); they are
\* contiguous and run to stop + 8h, where the last one is clipped, unless a
\* final sliver shorter than 5 minutes was suppressed.
C9_OffsetsFromStop ==
    xmltv.written =>
        \A i \in DOMAIN events :
            LET post == PostOf(events[i])
                n == Len(post)
                horizon == events[i].stop + FILLER_HOURS * MsPerHour
            IN  /\ n > 0
                /\ \A k \in 1..n : post[k].start = events[i].stop + (k - 1) * TileMs
                /\ \A k \in 1..(n - 1) : post[k].stop = post[k + 1].start
                /\ \/ post[n].stop = horizon
                   \/ /\ post[n].stop < horizon
                      /\ horizon - post[n].stop < SLIVER_MIN * MsPerMin
                      /\ post[n].stop - post[n].start = TileMs

C9_Witness ==
    /\ xmltv.written
    /\ \E i \in DOMAIN events :
         LET post == PostOf(events[i])
         IN  /\ ~OnGrid(events[i].stop)
             /\ Len(post) > 1
             /\ ~OnGrid(post[2].start)
             /\ post[Len(post)].stop < events[i].stop + FILLER_HOURS * MsPerHour

\* C10: an event whose block carries the live marker in the guide has an entry
\* in the playlist of the same run.
C10_LiveInPlaylist ==
    xmltv.written =>
        \A k \in DOMAIN xmltv.programmes :
            xmltv.programmes[k].live =>
                \E e \in DOMAIN m3u.entries :
                    m3u.entries[e].tvg_id = xmltv.programmes[k].channel

\* a live block with its playlist entry, the clock having moved between the
\* two steps, and an event in the playlist that is not marked live
C10_Witness ==
    /\ xmltv.written
    /\ nowXml > nowM3u
    /\ \E k \in DOMAIN xmltv.programmes : xmltv.programmes[k].live
    /\ \E i \in DOMAIN events :
         /\ InPlaylist(events[i].id)
         /\ ~KindOn(chan_id(events[i].id), "event")[1].live

---------------------------------------------------------------------------
(* shorten_title: a string is a sequence of characters *)

DEFAULT_MAX_LEN == 38

\* one code point of _title_emoji_re's ranges stands for all of them
EmojiChars == {"U+2728"}
Whitespace == {" ", "\t"}
Digits == {"0", "1", "2", "3", "4", "5", "6", "7", "8", "9"}
Letters == {"a", "b", "c", "t", "n", "k", "o", "w", "v", "e",
            "M", "E", "S", "P", "U"}

UnknownEvent == <<"U", "n", "k", "n", "o", "w", "n", " ", "E", "v", "e", "n", "t">>
Ellipsis == <<".", ".", ".">>

\* s[:n], n of either sign
PySlice(s, n) ==
    IF n >= 0 THEN SubSeq(s, 1, Min(n, Len(s)))
    ELSE SubSeq(s, 1, Max(Len(s) + n, 0))

\* _title_emoji_re.sub("", s)
RemoveEmoji(s) ==
    LET Keep(c) == c \notin EmojiChars
    IN  SelectSeq(s, Keep)

RECURSIVE LStrip(_)
LStrip(s) ==
    IF s # <<>> /\ Head(s) \in Whitespace THEN LStrip(Tail(s)) ELSE s

RECURSIVE RStrip(_)
RStrip(s) ==
    IF s # <<>> /\ s[Len(s)] \in Whitespace THEN RStrip(SubSeq(s, 1, Len(s) - 1)) ELSE s

\* re.sub(r"\s+", " ", s)
RECURSIVE CollapseWs(_)
CollapseWs(s) ==
    IF s = <<>> THEN <<>>
    ELSE IF Head(s) \in Whitespace THEN <<" ">> \o CollapseWs(LStrip(s))
    ELSE <<Head(s)>> \o CollapseWs(Tail(s))

Normalize(s) == RStrip(LStrip(CollapseWs(RemoveEmoji(s))))

\* cut.rsplit(" ", 1)[0]
RSplitHead(cut) ==
    LET spaces == {i \in DOMAIN cut : cut[i] = " "}
    IN  IF spaces = {} THEN cut
        ELSE SubSeq(cut, 1, (CHOOSE i \in spaces : \A j \in spaces : j <= i) - 1)

\* the first index at or after i that holds no whitespace (Len(s) + 1 if none)
SkipWs(s, i) ==
    LET rest == {j \in i..Len(s) : s[j] \notin Whitespace}
    IN  IF rest = {} THEN Len(s) + 1 ELSE CHOOSE j \in rest : \A k \in rest : j <= k

HasAt(s, i, set) == i \in DOMAIN s /\ s[i] \in set

\* \s+-\s+Mat\s+\d+$ matches s from index i (re.I)
MatAt(s, i) ==
    /\ HasAt(s, i, Whitespace)
    /\ LET j == SkipWs(s, i)
       IN  /\ HasAt(s, j, {"-"})
           /\ HasAt(s, j + 1, Whitespace)
           /\ LET k == SkipWs(s, j + 1)
              IN  /\ HasAt(s, k, {"M", "m"})
                  /\ HasAt(s, k + 1, {"A", "a"})
                  /\ HasAt(s, k + 2, {"T", "t"})
                  /\ HasAt(s, k + 3, Whitespace)
                  /\ LET d == SkipWs(s, k + 3)
                     IN  /\ d <= Len(s)
                         /\ \A x \in d..Len(s) : s[x] \in Digits

\* \s+\(ESP\)$ or \s+\([A-Z]{3}\)$ matches s from index i (re.I)
TagAt(s, i) ==
    /\ HasAt(s, i, Whitespace)
    /\ LET j == SkipWs(s, i)
       IN  /\ j + 4 = Len(s)
           /\ s[j] = "("
           /\ s[j + 1] \in Letters /\ s[j + 2] \in Letters /\ s[j + 3] \in Letters
           /\ s[j + 4] = ")"

\* re.search(...): the start of the leftmost match, 0 if there is none
SuffixStart(s) ==
    LET hits == {i \in DOMAIN s : MatAt(s, i) \/ TagAt(s, i)}
    IN  IF hits = {} THEN 0 ELSE CHOOSE i \in hits : \A j \in hits : i <= j

\* (cut or main_part[:max_main]).rstrip()
CutOr(cut, alt) == RStrip(IF cut # <<>> THEN cut ELSE alt)

ShortenMain(main_part, max_main) ==
    IF Len(main_part) > max_main
    THEN CutOr(RSplitHead(PySlice(main_part, max_main + 1)), PySlice(main_part, max_main))
    ELSE main_part

shorten_title(s0, n) ==
    IF s0 = <<>> THEN UnknownEvent
    ELSE LET s == Normalize(s0)
             at == SuffixStart(s)
         IN  IF Len(s) <= n THEN s
             ELSE IF at # 0
             THEN ShortenMain(SubSeq(s, 1, at - 1), n - (Len(s) - at + 1))
                  \o SubSeq(s, at, Len(s))
             ELSE CutOr(RSplitHead(PySlice(s, n + 1)), PySlice(s, n)) \o Ellipsis

\* the pieces titles are built from
Rep(c, n) == [i \in 1..n |-> c]
Tokens ==
    { <<"a", "a", "a", "a">>,
      <<"b", "b">>,
      <<" ">>,
      <<"\t", " ">>,
      <<"U+2728">>,
      <<" ", "-", " ", "M", "a", "t", " ", "1">>,
      <<" ", "(", "E", "S", "P", ")">>,
      Rep("c", 18) \o <<" ">> }

RECURSIVE Flatten(_)
Flatten(ts) == IF ts = <<>> THEN <<>> ELSE Head(ts) \o Flatten(Tail(ts))

Titles == {Flatten(ts) : ts \in UNION {[1..n -> Tokens] : n \in 0..MaxTokens}}

MaxLens == {5, 10, DEFAULT_MAX_LEN}

RunIdle ==
    /\ pc = "idle" /\ clock = 0 /\ tile = 30 /\ store = <<>> /\ rows = <<>>
    /\ events = <<>> /\ nowLoad = 0 /\ nowM3u = 0 /\ nowXml = 0
    /\ m3u = NoM3u /\ xmltv = NoXmltv

InitTitle ==
    /\ tpc = "init"
    /\ title \in Titles
    /\ max_len \in MaxLens
    /\ once = <<>>
    /\ twice = <<>>
    /\ RunIdle

ShortenOnce ==
    /\ tpc = "init"
    /\ once' = shorten_title(title, max_len)
    /\ tpc' = "once"
    /\ UNCHANGED <<title, max_len, twice>>
    /\ UNCHANGED runVars

ShortenTwice ==
    /\ tpc = "once"
    /\ twice' = shorten_title(once, max_len)
    /\ tpc' = "twice"
    /\ UNCHANGED <<title, max_len, once>>
    /\ UNCHANGED runVars

NextTitle == ShortenOnce \/ ShortenTwice

SpecTitle == InitTitle /\ [][NextTitle]_vars

\* C7 as stated: shortening a shortened title changes nothing.
C7_Idempotent == tpc = "twice" => twice = once

====
